---------------------------- MODULE Spec2Model ----------------------------
(***************************************************************************)
(* The live navigation and points-of-interest engine of the Tour Guide     *)
(* component (src/src/components/TourGuide.tsx): React state and refs of   *)
(* the component, the platform's geolocation watches and its task queue,   *)
(* and the requests in flight to the POI and routing services.             *)
(*                                                                         *)
(* Conventions.  A JavaScript value that may be null/undefined is a        *)
(* sequence of length 0 (None) or 1 (Some(v)).  Coordinates are whole      *)
(* degrees of a small grid.  Distances are kept in millimetres so that     *)
(* the comparisons of the floating-point distances are exact on the grid.  *)
(* Sequences are 1-based: index i here is index i-1 of the source.          *)
(***************************************************************************)
EXTENDS Integers, Sequences, FiniteSets, TLC

None == <<>>
Some(v) == <<v>>

Min(a, b) == IF a < b THEN a ELSE b
Max(a, b) == IF a > b THEN a ELSE b
Abs(a) == IF a < 0 THEN 0 - a ELSE a

(***************************************************************************)
(* Bounds of the model.                                                    *)
(***************************************************************************)
MaxQueue == 1        \* callback tasks queued on the geolocation task source
MaxInFlight == 1     \* requests of one kind awaiting their answer
MaxStarts == 2       \* the count of watch starts per route saturates here
MaxFixes == 3        \* position results the platform produces for watches
MaxRoutes == 2       \* routing requests the user issues
MaxPoiLoads == 1     \* nearby queries the user issues with the Nearby button
MaxLocRequests == 1  \* clicks of Share Location
MaxCategoryChanges == 1  \* changes of the category select

(***************************************************************************)
(* Coordinates: type Coords = { lat, lon }, whole degrees 0..2.            *)
(***************************************************************************)
Degrees == 0 .. 2
Coords == [lat : Degrees, lon : Degrees]
LatLon(la, lo) == [lat |-> la, lon |-> lo]

(***************************************************************************)
(* haversine(a, b) in millimetres.  The source evaluates                   *)
(*   c = sin^2(dLat/2) + cos(lat1) cos(lat2) sin^2(dLon/2)                 *)
(*   2 R asin(min(1, sqrt(c))),  R = 6371000                               *)
(* in double precision; c depends on the two latitudes and on |dLon|       *)
(* only.  The values below are that expression evaluated in double         *)
(* precision for every pair of grid points, times 1000 and rounded.        *)
(* Two grid pairs have equal doubles exactly when they have equal entries. *)
(***************************************************************************)
HaversineTable(lo, hi, dLon) ==
    CASE lo = 0 /\ hi = 0 /\ dLon = 0 -> 0
      [] lo = 0 /\ hi = 0 /\ dLon = 1 -> 111194927
      [] lo = 0 /\ hi = 0 /\ dLon = 2 -> 222389853
      [] lo = 0 /\ hi = 1 /\ dLon = 0 -> 111194927
      [] lo = 0 /\ hi = 1 /\ dLon = 1 -> 157249381
      [] lo = 0 /\ hi = 1 /\ dLon = 2 -> 248629315
      [] lo = 0 /\ hi = 2 /\ dLon = 0 -> 222389853
      [] lo = 0 /\ hi = 2 /\ dLon = 1 -> 248629315
      [] lo = 0 /\ hi = 2 /\ dLon = 2 -> 314474805
      [] lo = 1 /\ hi = 1 /\ dLon = 0 -> 0
      [] lo = 1 /\ hi = 1 /\ dLon = 1 -> 111177991
      [] lo = 1 /\ hi = 1 /\ dLon = 2 -> 222355979
      [] lo = 1 /\ hi = 2 /\ dLon = 0 -> 111194927
      [] lo = 1 /\ hi = 2 /\ dLon = 1 -> 157225432
      [] lo = 1 /\ hi = 2 /\ dLon = 2 -> 248568719
      [] lo = 2 /\ hi = 2 /\ dLon = 0 -> 0
      [] lo = 2 /\ hi = 2 /\ dLon = 1 -> 111127188
      [] lo = 2 /\ hi = 2 /\ dLon = 2 -> 222254366

haversine(a, b) ==
    HaversineTable(Min(a.lat, b.lat), Max(a.lat, b.lat), Abs(b.lon - a.lon))

\* Math.round of a distance kept in millimetres: the nearest whole metre,
\* halves rounded up.
MathRound(mm) == (mm + 500) \div 1000

\* Infinity, the initial bestDist: greater than every distance.
Infinity == 2147483647

(***************************************************************************)
(* Route steps: { name, distance, duration, maneuver?: { type?, modifier?, *)
(* location: [lon, lat] } }.  distance and duration are never read by the  *)
(* engine and are left out.                                                *)
(***************************************************************************)
Maneuver(type, modifier, lon, lat) ==
    [type |-> type, modifier |-> modifier, location |-> <<lon, lat>>]
Step(name, maneuver) == [name |-> name, maneuver |-> maneuver]

\* distanceToManeuver reading the location as [lat, lon].
distanceToManeuverSwapped(from, maneuverLoc) ==
    LET lat == maneuverLoc[1]
        lon == maneuverLoc[2]
    IN  haversine(from, LatLon(lat, lon))

\* const distanceToManeuver = (from, maneuverLoc) => haversine(from, {lat: loc[1], lon: loc[0]})
distanceToManeuver(from, maneuverLoc) ==
    LET lat == maneuverLoc[2]
        lon == maneuverLoc[1]
    IN  haversine(from, LatLon(lat, lon))

\* The loop of the watch callback: for i in 0..steps.length-1, skip a step
\* without a maneuver location, keep the first strictly smaller distance.
\* best.bestIdx = 0 stands for the source's bestIdx = -1.
RECURSIVE NearestLoop(_, _, _, _)
NearestLoop(steps, c, i, best) ==
    IF i > Len(steps) THEN best
    ELSE LET m == steps[i].maneuver IN
         IF m = None THEN NearestLoop(steps, c, i + 1, best)
         ELSE LET d == distanceToManeuver(c, m[1].location) IN
              IF d < best.bestDist
              THEN NearestLoop(steps, c, i + 1, [bestIdx |-> i, bestDist |-> d])
              ELSE NearestLoop(steps, c, i + 1, best)

NearestManeuver(steps, c) ==
    NearestLoop(steps, c, 1, [bestIdx |-> 0, bestDist |-> Infinity])

\* The text without the 'Proceed' fallback for a missing type.
NextTurnTextNoFallback(s) ==
    LET m == s.maneuver
        action == IF m # None /\ m[1].type # None THEN m[1].type[1] ELSE ""
        modifier == IF m # None /\ m[1].modifier # None /\ m[1].modifier[1] # ""
                    THEN " " \o m[1].modifier[1] ELSE ""
        road == IF s.name # "" THEN " on " \o s.name ELSE ""
    IN  action \o modifier \o road

\* `${action}${modifier}${road}` of the selected step s.
NextTurnTextOf(s) ==
    LET m == s.maneuver
        action == IF m # None /\ m[1].type # None /\ m[1].type[1] # ""
                  THEN m[1].type[1] ELSE "Proceed"
        modifier == IF m # None /\ m[1].modifier # None /\ m[1].modifier[1] # ""
                    THEN " " \o m[1].modifier[1] ELSE ""
        road == IF s.name # "" THEN " on " \o s.name ELSE ""
    IN  action \o modifier \o road


(***************************************************************************)
(* PlaceFinder: fetchOverpassPlaces.  An OverpassElement is                *)
(* { id, lat?, lon?, center?: { lat?, lon? }, tags?: { name?, amenity?,    *)
(* tourism? } }.                                                           *)
(***************************************************************************)
Tags(name, amenity, tourism) == [name |-> name, amenity |-> amenity, tourism |-> tourism]
Element(id, lat, lon, center, tags) ==
    [id |-> id, lat |-> lat, lon |-> lon, center |-> center, tags |-> tags]

\* A coordinate of the response body that is not a number: the body is cast
\* to OverpassElement[] unchecked, so a lat or lon can be any JSON value.
\* NonNumeric stands for a string that does not read as a number; NaN is
\* what arithmetic on it yields.
NonNumeric == -1
NaN == -2

\* typeof el.lat === 'number' ? el.lat : (el.center?.lat ?? 0)
ResolvedLat(el) ==
    IF el.lat # None /\ el.lat[1] # NonNumeric THEN el.lat[1]
    ELSE IF el.center # None /\ el.center[1].lat # None THEN el.center[1].lat[1]
    ELSE 0

\* typeof el.lon === 'number' ? el.lon : (el.center?.lon ?? 0)
ResolvedLon(el) ==
    IF el.lon # None /\ el.lon[1] # NonNumeric THEN el.lon[1]
    ELSE IF el.center # None /\ el.center[1].lon # None THEN el.center[1].lon[1]
    ELSE 0

\* el.tags?.name || 'Unknown'
ResolvedName(el) ==
    IF el.tags # None /\ el.tags[1].name # None /\ el.tags[1].name[1] # ""
    THEN el.tags[1].name[1] ELSE "Unknown"

\* el.tags?.amenity || el.tags?.tourism || category
ResolvedCategory(el, category) ==
    IF el.tags # None /\ el.tags[1].amenity # None /\ el.tags[1].amenity[1] # ""
    THEN el.tags[1].amenity[1]
    ELSE IF el.tags # None /\ el.tags[1].tourism # None /\ el.tags[1].tourism[1] # ""
    THEN el.tags[1].tourism[1]
    ELSE category

\* Math.round(haversine(coords, { lat, lon })): NaN when lat or lon is a
\* string that does not read as a number.
RoundedDistance(coords, lat, lon) ==
    IF lat = NonNumeric \/ lon = NonNumeric THEN NaN
    ELSE MathRound(haversine(coords, LatLon(lat, lon)))

\* The object one element is mapped to.  A non-empty string is truthy.
PlaceOf(el, coords, category) ==
    LET lat == ResolvedLat(el)
        lon == ResolvedLon(el)
    IN  [id |-> ToString(el.id),
         name |-> ResolvedName(el),
         category |-> ResolvedCategory(el, category),
         lat |-> lat,
         lon |-> lon,
         distanceMeters |->
             IF lat # 0 /\ lon # 0
             THEN Some(RoundedDistance(coords, lat, lon))
             ELSE None]

\* A filter that keeps every mapped element.
RECURSIVE FilterPlacesKeepsAll(_)
FilterPlacesKeepsAll(ps) ==
    IF ps = <<>> THEN <<>>
    ELSE <<Head(ps)>> \o FilterPlacesKeepsAll(Tail(ps))

\* .filter((p) => p.lat && p.lon)
RECURSIVE FilterPlaces(_)
FilterPlaces(ps) ==
    IF ps = <<>> THEN <<>>
    ELSE IF Head(ps).lat # 0 /\ Head(ps).lon # 0
         THEN <<Head(ps)>> \o FilterPlaces(Tail(ps))
         ELSE FilterPlaces(Tail(ps))

\* a.distanceMeters ?? 0
SortKey(p) == IF p.distanceMeters # None THEN p.distanceMeters[1] ELSE 0

\* The comparator (a, b) => key(a) - key(b) as the sort reads it: a NaN
\* result counts as +0.
Comparator(a, b) ==
    IF SortKey(a) = NaN \/ SortKey(b) = NaN THEN 0 ELSE SortKey(a) - SortKey(b)

\* Array.prototype.sort with a consistent comparator: a stable sort
\* (ECMAScript 2019), here by insertion after the last element not greater.
RECURSIVE InsertPlace(_, _)
InsertPlace(sorted, p) ==
    IF sorted = <<>> THEN <<p>>
    ELSE IF Comparator(Head(sorted), p) <= 0
         THEN <<Head(sorted)>> \o InsertPlace(Tail(sorted), p)
         ELSE <<p>> \o sorted

RECURSIVE SortPlaces(_)
SortPlaces(ps) ==
    IF ps = <<>> THEN <<>>
    ELSE InsertPlace(SortPlaces(SubSeq(ps, 1, Len(ps) - 1)), ps[Len(ps)])

\* Whether the comparator is consistent on ps: "compares equal" must be
\* transitive, which fails exactly when a NaN key (equal to everything) meets
\* two different numeric keys.
ConsistentComparator(ps) ==
    \A i, j, k \in 1 .. Len(ps) :
        (Comparator(ps[i], ps[j]) = 0 /\ Comparator(ps[j], ps[k]) = 0)
            => Comparator(ps[i], ps[k]) = 0

\* The rearrangements of a list.
PermutationsOf(ps) ==
    {[i \in 1 .. Len(ps) |-> ps[f[i]]] :
        f \in {g \in [1 .. Len(ps) -> 1 .. Len(ps)] :
                   \A i, j \in 1 .. Len(ps) : g[i] = g[j] => i = j}}

\* places.sort(...): the stable order when the comparator is consistent;
\* otherwise the order is implementation-defined.
SortOutcomes(ps) ==
    IF ConsistentComparator(ps) THEN {SortPlaces(ps)} ELSE PermutationsOf(ps)

\* The value fetchOverpassPlaces resolves to for a response with status ok
\* whose body parsed to `elements` (json.elements, or [] when not an array),
\* when the elements' coordinates are numbers or absent.
OverpassPlaces(elements, coords, category) ==
    SortPlaces(FilterPlaces([i \in 1 .. Len(elements) |->
                                PlaceOf(elements[i], coords, category)]))

\* The values fetchOverpassPlaces can resolve to for such a response.
OverpassOutcomes(elements, coords, category) ==
    SortOutcomes(FilterPlaces([i \in 1 .. Len(elements) |->
                                  PlaceOf(elements[i], coords, category)]))


(***************************************************************************)
(* State.                                                                  *)
(*   React state: coords, locError, loadingPOI, places, poiCategory,       *)
(*     messages, routeSteps, nextTurnText, nextTurnDistance.               *)
(*   Refs: watchIdRef, nextTurnMarkerRef (the marker's position),          *)
(*     routePolylineRef (the polyline's points), mapRef (the map's view).  *)
(*   React's record of the guidance effect: effectCleanup (the last run    *)
(*     returned a cleanup function); mounted.                              *)
(*   Platform: watches (the registered position watches, each with the     *)
(*     routeSteps its callback closed over), geoQueue (callback tasks      *)
(*     queued on the geolocation task source, oldest first), and the       *)
(*     one-shot position requests and HTTP requests awaiting their answer. *)
(*   History: budget (how many of the bounded events may still happen),   *)
(*     watchStarts (calls of watchPosition since routeSteps was last     *)
(*     set), clearedByUser (watches clearRoute cancelled that still have   *)
(*     a task queued), lastEvent (the handler that ran last).              *)
(***************************************************************************)
VARIABLES mounted, coords, locError, loadingPOI, places, poiCategory, messages,
          routeSteps, nextTurnText, nextTurnDistance,
          watchIdRef, nextTurnMarkerRef, routePolylineRef, mapRef,
          effectCleanup, watches, geoQueue,
          preloadPending, locPending, poiRequests, routePending,
          watchStarts, clearedByUser, lastEvent, budget

vars == <<mounted, coords, locError, loadingPOI, places, poiCategory, messages,
          routeSteps, nextTurnText, nextTurnDistance,
          watchIdRef, nextTurnMarkerRef, routePolylineRef, mapRef,
          effectCleanup, watches, geoQueue,
          preloadPending, locPending, poiRequests, routePending,
          watchStarts, clearedByUser, lastEvent, budget>>

\* The part of the state the handlers and effects below transform.
Component ==
    [mounted |-> mounted, coords |-> coords, places |-> places,
     routeSteps |-> routeSteps, nextTurnText |-> nextTurnText,
     nextTurnDistance |-> nextTurnDistance, watchIdRef |-> watchIdRef,
     nextTurnMarkerRef |-> nextTurnMarkerRef,
     routePolylineRef |-> routePolylineRef, mapRef |-> mapRef,
     effectCleanup |-> effectCleanup, watches |-> watches,
     watchStarts |-> watchStarts]

Install(s) ==
    /\ mounted' = s.mounted
    /\ coords' = s.coords
    /\ places' = s.places
    /\ routeSteps' = s.routeSteps
    /\ nextTurnText' = s.nextTurnText
    /\ nextTurnDistance' = s.nextTurnDistance
    /\ watchIdRef' = s.watchIdRef
    /\ nextTurnMarkerRef' = s.nextTurnMarkerRef
    /\ routePolylineRef' = s.routePolylineRef
    /\ mapRef' = s.mapRef
    /\ effectCleanup' = s.effectCleanup
    /\ watches' = s.watches
    /\ watchStarts' = s.watchStarts

(***************************************************************************)
(* The platform's geolocation service.                                     *)
(***************************************************************************)
WatchIdsOf(ws) == {w.id : w \in ws}
QueuedIdsOf(q) == {q[i].watch : i \in 1 .. Len(q)}

\* navigator.geolocation.clearWatch(id): the watch is no longer registered.
\* Tasks already queued for it stay queued.
clearWatch(ws, id) == {w \in ws : w.id # id}

\* The handle watchPosition returns: an id no registered watch and no queued
\* task carries (the program only ever compares a handle with null).
FreshWatchId(ws, q) ==
    LET used == WatchIdsOf(ws) \cup QueuedIdsOf(q)
    IN  CHOOSE n \in 1 .. (Cardinality(used) + 1) :
            n \notin used /\ \A m \in 1 .. (n - 1) : m \in used

(***************************************************************************)
(* The map.  A view is [center, zoom]; a centre is kept in half degrees    *)
(* so that the centre of a bounding box is a grid value.                   *)
(***************************************************************************)
View(lat2, lon2, zoom) == [center |-> <<lat2, lon2>>, zoom |-> zoom]

\* map.setView([lat, lon], zoom)
setView(lat, lon, zoom) == Some(View(2 * lat, 2 * lon, zoom))

SetMin(S) == CHOOSE x \in S : \A y \in S : x <= y
SetMax(S) == CHOOSE x \in S : \A y \in S : x >= y

\* map.fitBounds(bounds, {padding}) for the bounds of a non-empty set of
\* [lat, lon] points: centred on the bounds; the zoom is the largest at which
\* the padded bounds fit the 320 px high container, the tile layer's maximum
\* (18) when the bounds are a single point.
fitBounds(points) ==
    LET lats == {pt[1] : pt \in points}
        lons == {pt[2] : pt \in points}
        span == Max(SetMax(lats) - SetMin(lats), SetMax(lons) - SetMin(lons))
    IN  Some(View(SetMin(lats) + SetMax(lats), SetMin(lons) + SetMax(lons),
                  IF span = 0 THEN 18 ELSE IF span = 1 THEN 8 ELSE 7))

(***************************************************************************)
(* Effects.  An effect runs after a render in which one of its             *)
(* dependencies changed identity; every setCoords, setPlaces and           *)
(* setRouteSteps of the component passes a fresh object.                   *)
(***************************************************************************)
\* A cleanup that forgets the handle without cancelling the watch.
GuidanceCleanupNoClear(s) ==
    IF s.effectCleanup /\ s.watchIdRef # None
    THEN [s EXCEPT !.watchIdRef = None]
    ELSE s

\* The cleanup the guidance effect returned on its last run, if it did.
GuidanceCleanup(s) ==
    IF s.effectCleanup /\ s.watchIdRef # None
    THEN [s EXCEPT !.watches = clearWatch(s.watches, s.watchIdRef[1]),
                   !.watchIdRef = None]
    ELSE s

\* An effect body that starts guidance on coords alone.
GuidanceEffectBodyNoLength(s, q) ==
    IF s.coords = None
    THEN [s EXCEPT !.watches = IF s.watchIdRef # None
                                 THEN clearWatch(s.watches, s.watchIdRef[1])
                                 ELSE s.watches,
                   !.watchIdRef = None,
                   !.effectCleanup = FALSE]
    ELSE IF s.watchIdRef # None
    THEN [s EXCEPT !.effectCleanup = FALSE]
    ELSE LET id == FreshWatchId(s.watches, q) IN
         [s EXCEPT !.watches = s.watches \cup {[id |-> id, steps |-> s.routeSteps]},
                   !.watchIdRef = Some(id),
                   !.effectCleanup = TRUE,
                   !.watchStarts = Min(s.watchStarts + 1, MaxStarts)]

\* The body of the guidance effect; q is the geolocation task queue.
GuidanceEffectBody(s, q) ==
    IF s.coords = None \/ Len(s.routeSteps) = 0
    THEN [s EXCEPT !.watches = IF s.watchIdRef # None
                                 THEN clearWatch(s.watches, s.watchIdRef[1])
                                 ELSE s.watches,
                   !.watchIdRef = None,
                   !.effectCleanup = FALSE]
    ELSE IF s.watchIdRef # None
    THEN [s EXCEPT !.effectCleanup = FALSE]
    ELSE LET id == FreshWatchId(s.watches, q) IN
         [s EXCEPT !.watches = s.watches \cup {[id |-> id, steps |-> s.routeSteps]},
                   !.watchIdRef = Some(id),
                   !.effectCleanup = TRUE,
                   !.watchStarts = Min(s.watchStarts + 1, MaxStarts)]

GuidanceEffect(s, q) == GuidanceEffectBody(GuidanceCleanup(s), q)

\* Initialize map when we first have coords (mapContainerRef is set while
\* the component is mounted).
MapInitEffect(s) ==
    IF s.coords = None THEN s
    ELSE [s EXCEPT !.mapRef = setView(s.coords[1].lat, s.coords[1].lon, 14)]

\* Update markers when coords or places change.  L.circleMarker rejects a
\* coordinate that does not read as a number by throwing; an error thrown by
\* an effect, with no error boundary above, makes React unmount the tree.
MarkersEffect(s) ==
    IF s.mapRef = None THEN s
    ELSE IF \E i \in 1 .. Len(s.places) :
                s.places[i].lat = NonNumeric \/ s.places[i].lon = NonNumeric
    THEN [GuidanceCleanup(s) EXCEPT !.mounted = FALSE, !.effectCleanup = FALSE]
    ELSE LET points ==
                 (IF s.coords # None
                  THEN {<<s.coords[1].lat, s.coords[1].lon>>} ELSE {})
                 \cup {<<s.places[i].lat, s.places[i].lon>> : i \in 1 .. Len(s.places)}
             count == (IF s.coords # None THEN 1 ELSE 0) + Len(s.places)
         IN  IF count >= 2 THEN [s EXCEPT !.mapRef = fitBounds(points)] ELSE s

\* Effects with the guidance effect depending on coords only.
RunEffectsCoordsOnly(s, q, coordsChanged, placesChanged, stepsChanged) ==
    IF ~s.mounted THEN s
    ELSE LET a == IF coordsChanged THEN GuidanceEffect(s, q) ELSE s
             b == IF coordsChanged THEN MapInitEffect(a) ELSE a
         IN  IF coordsChanged \/ placesChanged THEN MarkersEffect(b) ELSE b

\* The effects of one commit, in the order the component declares them.
RunEffects(s, q, coordsChanged, placesChanged, stepsChanged) ==
    IF ~s.mounted THEN s
    ELSE LET a == IF coordsChanged \/ stepsChanged THEN GuidanceEffect(s, q) ELSE s
             b == IF coordsChanged THEN MapInitEffect(a) ELSE a
         IN  IF coordsChanged \/ placesChanged THEN MarkersEffect(b) ELSE b


(***************************************************************************)
(* The chat transcript: the model keeps its last MaxMessages entries.      *)
(***************************************************************************)
MaxMessages == 1

Say(msgs, text) ==
    LET all == Append(msgs, text)
    IN  IF Len(all) > MaxMessages
        THEN SubSeq(all, Len(all) - MaxMessages + 1, Len(all))
        ELSE all

\* n.toFixed(4) of a whole number of degrees.
ToFixed4(n) == ToString(n) \o ".0000"

\* results.slice(0, 5).map(p => `${p.name} (${p.category}, ${p.distanceMeters ?? '?'}m)`).join(', ')
RECURSIVE JoinSummary(_, _)
JoinSummary(ps, n) ==
    IF ps = <<>> \/ n = 0 THEN ""
    ELSE LET p == Head(ps)
             item == p.name \o " (" \o p.category \o ", "
                     \o (IF p.distanceMeters = None THEN "?"
                         ELSE IF p.distanceMeters[1] = NaN THEN "NaN"
                         ELSE ToString(p.distanceMeters[1]))
                     \o "m)"
             rest == JoinSummary(Tail(ps), n - 1)
         IN  IF rest = "" THEN item ELSE item \o ", " \o rest

\* sendMessage's intent detection.  A text is given with the set of
\* categories whose pattern it matches; the patterns are tried in this order:
\* /post\s*office|mail|usps/, /restaurant|eat|dine|food/, /coffee|cafe/,
\* /museum|gallery/, /attraction|landmark|tourist/.
\* An inference in which the last matching pattern wins.
InferCategoryLastMatch(matches) ==
    IF "tourism" \in matches THEN Some("tourism")
    ELSE IF "museum" \in matches THEN Some("museum")
    ELSE IF "cafe" \in matches THEN Some("cafe")
    ELSE IF "restaurant" \in matches THEN Some("restaurant")
    ELSE IF "post_office" \in matches THEN Some("post_office")
    ELSE None

InferCategory(matches) ==
    IF "post_office" \in matches THEN Some("post_office")
    ELSE IF "restaurant" \in matches THEN Some("restaurant")
    ELSE IF "cafe" \in matches THEN Some("cafe")
    ELSE IF "museum" \in matches THEN Some("museum")
    ELSE IF "tourism" \in matches THEN Some("tourism")
    ELSE None

\* inferredCategory.replace('_', ' ')
ReplaceUnderscore(category) ==
    IF category = "post_office" THEN "post office" ELSE category

(***************************************************************************)
(* Handlers, as transformations of the component's state.                  *)
(***************************************************************************)
\* A setPlaces that merges the results into the list it already holds.
setPlacesMerging(s, results) == [s EXCEPT !.places = s.places \o results]

\* A setPlaces that keeps a list already on show: the first answer wins.
setPlacesKeepsShown(s, results) ==
    IF s.places # <<>> THEN s ELSE [s EXCEPT !.places = results]

\* setPlaces(results)
setPlaces(s, results) == [s EXCEPT !.places = results]

\* clearRoute forgetting the watch handle without cancelling the watch.
clearRouteNoClearWatch(s) ==
    [s EXCEPT !.routePolylineRef = None,
              !.routeSteps = <<>>,
              !.nextTurnText = None,
              !.nextTurnDistance = None,
              !.nextTurnMarkerRef = None,
              !.watchIdRef = None,
              !.watchStarts = 0]

\* clearRoute leaving the next-turn marker on the map.
clearRouteKeepsMarker(s) ==
    [s EXCEPT !.routePolylineRef = None,
              !.routeSteps = IF s.mounted THEN <<>> ELSE s.routeSteps,
              !.nextTurnText = IF s.mounted THEN None ELSE s.nextTurnText,
              !.nextTurnDistance = IF s.mounted THEN None ELSE s.nextTurnDistance,
              !.watches = IF s.watchIdRef # None
                          THEN clearWatch(s.watches, s.watchIdRef[1])
                          ELSE s.watches,
              !.watchIdRef = None,
              !.watchStarts = 0]

\* const clearRoute = () => { ... }
clearRoute(s) ==
    [s EXCEPT !.routePolylineRef = None,
              !.routeSteps = IF s.mounted THEN <<>> ELSE s.routeSteps,
              !.nextTurnText = IF s.mounted THEN None ELSE s.nextTurnText,
              !.nextTurnDistance = IF s.mounted THEN None ELSE s.nextTurnDistance,
              !.nextTurnMarkerRef = None,
              !.watches = IF s.watchIdRef # None
                          THEN clearWatch(s.watches, s.watchIdRef[1])
                          ELSE s.watches,
              !.watchIdRef = None,
              !.watchStarts = 0]

\* The success callback the guidance effect hands to watchPosition, run for
\* position c; steps is the routeSteps the callback closed over.
WatchSuccess(s, steps, c) ==
    LET best == NearestManeuver(steps, c)
        moved == IF s.mapRef # None
                 THEN setView(c.lat, c.lon, Max(s.mapRef[1].zoom, 15))
                 ELSE s.mapRef
    IN  IF best.bestIdx >= 1
        THEN LET st == steps[best.bestIdx]
                 lat == st.maneuver[1].location[2]
                 lon == st.maneuver[1].location[1]
             IN  [s EXCEPT !.coords = IF s.mounted THEN Some(c) ELSE s.coords,
                           !.mapRef = moved,
                           !.nextTurnDistance =
                               IF s.mounted THEN Some(MathRound(best.bestDist))
                               ELSE s.nextTurnDistance,
                           !.nextTurnText =
                               IF s.mounted THEN Some(NextTurnTextOf(st))
                               ELSE s.nextTurnText,
                           !.nextTurnMarkerRef =
                               IF s.mapRef # None THEN Some(<<lat, lon>>)
                               ELSE s.nextTurnMarkerRef]
        ELSE [s EXCEPT !.coords = IF s.mounted THEN Some(c) ELSE s.coords,
                       !.mapRef = moved,
                       !.nextTurnText = IF s.mounted THEN None ELSE s.nextTurnText,
                       !.nextTurnDistance =
                           IF s.mounted THEN None ELSE s.nextTurnDistance]

\* An error callback that gives guidance up: it cancels the watch and resets
\* the guidance state.
WatchErrorGivesUp(s) ==
    [s EXCEPT !.watches = IF s.watchIdRef # None
                          THEN clearWatch(s.watches, s.watchIdRef[1])
                          ELSE s.watches,
              !.watchIdRef = None,
              !.nextTurnText = None,
              !.nextTurnDistance = None]

\* The error callback the guidance effect hands to watchPosition:
\* (err) => { console.warn('watchPosition error', err); }
WatchError(s) == s

\* route.geometry.coordinates.map(([lon, lat]) => [lat, lon])
LatLngs(coordinates) ==
    [i \in 1 .. Len(coordinates) |-> <<coordinates[i][2], coordinates[i][1]>>]

\* The steps of every leg of the route, one after another.
AllLegsSteps(route) ==
    LET RECURSIVE Concat(_)
        Concat(i) == IF i > Len(route.legs) THEN <<>>
                     ELSE route.legs[i].steps \o Concat(i + 1)
    IN  Concat(1)

\* route.legs?.[0]?.steps ?? []
FirstLegSteps(route) == IF Len(route.legs) >= 1 THEN route.legs[1].steps ELSE <<>>

\* Whether the try block of routeTo throws for this response: a non-ok
\* status, an unparsable body, no route alternative, or (thrown by
\* fitBounds, after the polyline was replaced) bounds of no point.
RouteThrows(resp) ==
    \/ ~resp.ok
    \/ resp.body = None
    \/ Len(resp.body[1].routes) = 0
    \/ Len(resp.body[1].routes[1].geometry) = 0

\* The continuation of routeTo after `await fetch(url)`, up to the catch.
routeToResolved(s, resp) ==
    IF ~resp.ok \/ resp.body = None \/ Len(resp.body[1].routes) = 0 THEN s
    ELSE LET route == resp.body[1].routes[1]
             latlngs == LatLngs(route.geometry)
         IN  IF Len(latlngs) = 0
             THEN [s EXCEPT !.routePolylineRef = Some(latlngs)]
             ELSE [s EXCEPT !.routePolylineRef = Some(latlngs),
                            !.mapRef = fitBounds({latlngs[i] : i \in 1 .. Len(latlngs)}),
                            !.routeSteps = IF s.mounted THEN FirstLegSteps(route)
                                           ELSE s.routeSteps,
                            !.watchStarts = IF s.mounted THEN 0 ELSE s.watchStarts]

\* The values `await fetchOverpassPlaces(coords, category)` can yield, None
\* when it throws (a non-ok status or an unparsable body).
fetchOverpassPlaces(resp, c, category) ==
    IF ~resp.ok \/ resp.body = None THEN {None}
    ELSE {Some(r) : r \in OverpassOutcomes(IF resp.body[1].elements # None
                                           THEN resp.body[1].elements[1] ELSE <<>>,
                                           c, category)}


(***************************************************************************)
(* The inputs the environment supplies.                                    *)
(***************************************************************************)
\* Positions the platform reports.
PositionSamples == {LatLon(1, 0), LatLon(1, 1)}

\* Step lists of routing responses.  Maneuver locations are [lon, lat].
RouteTwo ==
    <<Step("Main St", Some(Maneuver(Some("turn"), Some("left"), 2, 1))),
      Step("", Some(Maneuver(None, None, 1, 2)))>>
RouteTie ==
    <<Step("Oak Ave", Some(Maneuver(Some("depart"), None, 1, 0))),
      Step("Elm St", Some(Maneuver(Some("arrive"), None, 1, 2)))>>
RouteNoManeuver == <<Step("Main St", None)>>

GeometrySample == <<<<0, 1>>, <<2, 1>>>>

RouteBody(legs) == Some([routes |-> <<[geometry |-> GeometrySample, legs |-> legs]>>])

RouteResponses ==
    {[ok |-> FALSE, body |-> None],
     [ok |-> TRUE, body |-> Some([routes |-> <<>>])],
     [ok |-> TRUE, body |-> Some([routes |-> <<[geometry |-> <<>>,
                                                legs |-> <<[steps |-> RouteTie]>>]>>])],
     [ok |-> TRUE, body |-> RouteBody(<<>>)],
     [ok |-> TRUE, body |-> RouteBody(<<[steps |-> RouteTwo]>>)],
     [ok |-> TRUE, body |-> RouteBody(<<[steps |-> RouteTie]>>)],
     [ok |-> TRUE, body |-> RouteBody(<<[steps |-> RouteNoManeuver]>>)]}

\* Categories the user selects among (keys of CATEGORIES).
CategorySamples == {"restaurant", "cafe"}

ElementsSample ==
    <<Element(1, Some(2), Some(2), None, Some(Tags(Some("Luigi"), Some("restaurant"), None))),
      Element(2, None, None, Some([lat |-> Some(1), lon |-> Some(1)]), None),
      Element(3, None, None, None, Some(Tags(None, None, Some("viewpoint"))))>>

OverpassResponses ==
    {[ok |-> FALSE, body |-> None],
     [ok |-> TRUE, body |-> Some([elements |-> None])],
     [ok |-> TRUE, body |-> Some([elements |-> Some(ElementsSample)])]}

\* Chat inputs: the trimmed text and the categories whose pattern it matches.
ChatSamples ==
    {[text |-> "", matches |-> {}],
     [text |-> "hello", matches |-> {}],
     [text |-> "coffee or food?", matches |-> {"restaurant", "cafe"}]}

\* Answers of the chat completion service.
LlmReplies ==
    {[ok |-> FALSE, content |-> None],
     [ok |-> TRUE, content |-> None],
     [ok |-> TRUE, content |-> Some("Try Luigi.")]}

(***************************************************************************)
(* Initial state: the component has mounted with its useState defaults and *)
(* its mount effect has asked for the current position once.               *)
(***************************************************************************)
Mounted ==
    /\ mounted = TRUE
    /\ coords = None
    /\ locError = None
    /\ loadingPOI = FALSE
    /\ places = <<>>
    /\ poiCategory = "restaurant"
    /\ messages = <<"Hi! I can use your location and camera to suggest nearby spots and identify landmarks. Share your location to begin.">>
    /\ routeSteps = <<>>
    /\ nextTurnText = None
    /\ nextTurnDistance = None
    /\ watchIdRef = None
    /\ nextTurnMarkerRef = None
    /\ routePolylineRef = None
    /\ mapRef = None
    /\ effectCleanup = FALSE
    /\ watches = {}
    /\ geoQueue = <<>>
    /\ preloadPending = TRUE
    /\ locPending = 0
    /\ poiRequests = <<>>
    /\ routePending = <<>>
    /\ watchStarts = 0
    /\ clearedByUser = {}
    /\ lastEvent = [op |-> "mount"]

Init ==
    /\ Mounted
    /\ budget = [fix |-> MaxFixes, route |-> MaxRoutes, poi |-> MaxPoiLoads,
                 loc |-> MaxLocRequests, cat |-> MaxCategoryChanges, chat |-> 0,
                 flight |-> MaxInFlight, issued |-> 0]

\* clearedByUser keeps only the watches that still have a task in the queue.
StillQueued(ids, q) == ids \cap QueuedIdsOf(q)

\* An answered request that is sent again: it moves to the end of the
\* outstanding requests instead of leaving them.
ResendAt(q, i) == SubSeq(q, 1, i - 1) \o SubSeq(q, i + 1, Len(q)) \o <<q[i]>>

\* The i-th outstanding request has settled.
RemoveAt(q, i) == SubSeq(q, 1, i - 1) \o SubSeq(q, i + 1, Len(q))

(***************************************************************************)
(* Actions.  Each is one handler or callback together with the render and  *)
(* the effects its state updates cause.                                    *)
(***************************************************************************)
\* The mount effect's getCurrentPosition succeeds with position c.
PreloadSuccess(c) ==
    /\ preloadPending
    /\ preloadPending' = FALSE
    /\ Install(RunEffects([Component EXCEPT !.coords = IF mounted THEN Some(c) ELSE coords],
                          geoQueue, TRUE, FALSE, FALSE))
    /\ clearedByUser' = StillQueued(clearedByUser, geoQueue)
    /\ lastEvent' = [op |-> "preload"]
    /\ UNCHANGED <<budget, locError, loadingPOI, poiCategory, messages, geoQueue,
                   locPending, poiRequests, routePending>>

\* The mount effect's getCurrentPosition fails: () => void 0.
PreloadError ==
    /\ preloadPending
    /\ preloadPending' = FALSE
    /\ lastEvent' = [op |-> "preloadError"]
    /\ UNCHANGED <<budget, mounted, coords, locError, loadingPOI, places, poiCategory,
                   messages, routeSteps, nextTurnText, nextTurnDistance,
                   watchIdRef, nextTurnMarkerRef, routePolylineRef, mapRef,
                   effectCleanup, watches, geoQueue, locPending, poiRequests,
                   routePending, watchStarts, clearedByUser>>

\* The Share Location button: requestLocation.
RequestLocation ==
    /\ mounted
    /\ locPending < budget.flight
    /\ locError' = None
    /\ locPending' = locPending + 1
    /\ budget.loc > 0
    /\ budget' = [budget EXCEPT !.loc = @ - 1]
    /\ lastEvent' = [op |-> "requestLocation", cleared |-> locError # None]
    /\ UNCHANGED <<mounted, coords, loadingPOI, places, poiCategory,
                   messages, routeSteps, nextTurnText, nextTurnDistance,
                   watchIdRef, nextTurnMarkerRef, routePolylineRef, mapRef,
                   effectCleanup, watches, geoQueue, preloadPending, poiRequests,
                   routePending, watchStarts, clearedByUser>>

\* requestLocation's success callback with position c.
LocationSuccess(c) ==
    /\ locPending > 0
    /\ locPending' = locPending - 1
    /\ Install(RunEffects([Component EXCEPT !.coords = IF mounted THEN Some(c) ELSE coords],
                          geoQueue, TRUE, FALSE, FALSE))
    /\ messages' = IF mounted
                   THEN Say(messages, "Location set to (" \o ToFixed4(c.lat) \o ", "
                                      \o ToFixed4(c.lon) \o ").")
                   ELSE messages
    /\ clearedByUser' = StillQueued(clearedByUser, geoQueue)
    /\ lastEvent' = [op |-> "location", pos |-> c]
    /\ UNCHANGED <<budget, locError, loadingPOI, poiCategory, geoQueue,
                   preloadPending, poiRequests, routePending>>

\* An error callback that reports nothing, like the mount effect's.
LocationErrorSilent ==
    /\ locPending > 0
    /\ locPending' = locPending - 1
    /\ lastEvent' = [op |-> "locationError"]
    /\ UNCHANGED <<budget, mounted, coords, locError, loadingPOI, places, poiCategory,
                   messages, routeSteps, nextTurnText, nextTurnDistance,
                   watchIdRef, nextTurnMarkerRef, routePolylineRef, mapRef,
                   effectCleanup, watches, geoQueue, preloadPending, poiRequests,
                   routePending, watchStarts, clearedByUser>>

\* requestLocation's error callback: err.message || 'Unable to get location'.
LocationError ==
    /\ locPending > 0
    /\ locPending' = locPending - 1
    /\ locError' = IF mounted THEN Some("Unable to get location") ELSE locError
    /\ lastEvent' = [op |-> "locationError"]
    /\ UNCHANGED <<budget, mounted, coords, loadingPOI, places, poiCategory,
                   messages, routeSteps, nextTurnText, nextTurnDistance,
                   watchIdRef, nextTurnMarkerRef, routePolylineRef, mapRef,
                   effectCleanup, watches, geoQueue, preloadPending, poiRequests,
                   routePending, watchStarts, clearedByUser>>


\* The category select: setPoiCategory(e.target.value).
SelectCategory(k) ==
    /\ mounted
    /\ k # poiCategory
    /\ poiCategory' = k
    /\ budget.cat > 0
    /\ budget' = [budget EXCEPT !.cat = @ - 1]
    /\ lastEvent' = [op |-> "selectCategory"]
    /\ UNCHANGED <<mounted, coords, locError, loadingPOI, places,
                   messages, routeSteps, nextTurnText, nextTurnDistance,
                   watchIdRef, nextTurnMarkerRef, routePolylineRef, mapRef,
                   effectCleanup, watches, geoQueue, preloadPending, locPending,
                   poiRequests, routePending, watchStarts, clearedByUser>>

\* A loadPOIs without the check of coords: with no coordinate it queries
\* around (0, 0).
LoadPOIsUnguarded ==
    /\ mounted
    /\ Len(poiRequests) < budget.flight
    /\ loadingPOI' = TRUE
    /\ poiRequests' = Append(poiRequests,
                             [via |-> "nearby",
                              coords |-> IF coords = None THEN LatLon(0, 0) ELSE coords[1],
                              category |-> poiCategory,
                              n |-> budget.issued + 1])
    /\ budget.poi > 0
    /\ budget' = [budget EXCEPT !.poi = @ - 1, !.issued = @ + 1]
    /\ lastEvent' = [op |-> "loadPOIs"]
    /\ UNCHANGED <<mounted, coords, locError, places, poiCategory, messages,
                   routeSteps, nextTurnText, nextTurnDistance,
                   watchIdRef, nextTurnMarkerRef, routePolylineRef, mapRef,
                   effectCleanup, watches, geoQueue, preloadPending, locPending,
                   routePending, watchStarts, clearedByUser>>

\* The Nearby button: loadPOIs up to its await.
LoadPOIs ==
    /\ mounted
    /\ IF coords = None
       THEN /\ messages' = Say(messages, "Please share your location first.")
            /\ UNCHANGED <<loadingPOI, poiRequests>>
       ELSE /\ Len(poiRequests) < budget.flight
            /\ loadingPOI' = TRUE
            /\ poiRequests' = Append(poiRequests,
                                     [via |-> "nearby", coords |-> coords[1],
                                      category |-> poiCategory,
                                      n |-> budget.issued + 1])
            /\ UNCHANGED messages
    /\ budget.poi > 0
    /\ budget' = [budget EXCEPT !.poi = @ - 1,
                                !.issued = IF coords = None THEN @ ELSE @ + 1]
    /\ lastEvent' = [op |-> "loadPOIs"]
    /\ UNCHANGED <<mounted, coords, locError, places, poiCategory,
                   routeSteps, nextTurnText, nextTurnDistance,
                   watchIdRef, nextTurnMarkerRef, routePolylineRef, mapRef,
                   effectCleanup, watches, geoQueue, preloadPending, locPending,
                   routePending, watchStarts, clearedByUser>>

\* The continuation after `await fetchOverpassPlaces(...)`, in loadPOIs (a
\* request made via the Nearby button) or in sendMessage (made via the
\* chat): the i-th outstanding request is answered by resp.
PoiResolved(i, resp) ==
    /\ i \in 1 .. Len(poiRequests)
    /\ poiRequests[i].via # "llm"
    /\ \E results \in fetchOverpassPlaces(resp, poiRequests[i].coords,
                                          poiRequests[i].category) :
        LET req == poiRequests[i]
            label == IF req.via = "nearby" THEN req.category
                     ELSE ReplaceUnderscore(req.category)
        IN  /\ IF results # None /\ mounted
               THEN /\ Install(RunEffects(setPlaces(Component, results[1]),
                                          geoQueue, FALSE, TRUE, FALSE))
                    /\ messages' =
                         Say(messages,
                             IF JoinSummary(results[1], 5) # ""
                             THEN "Nearby " \o label \o ": "
                                  \o JoinSummary(results[1], 5)
                             ELSE "No nearby " \o label \o " found.")
               ELSE /\ Install(Component)
                    /\ messages' =
                         IF mounted /\ results = None
                         THEN Say(messages,
                                  IF req.via = "nearby"
                                  THEN "Could not load nearby places right now."
                                  ELSE "Chat service is unavailable at the moment.")
                         ELSE messages
            /\ lastEvent' = [op |-> "poiResolved", ok |-> results # None,
                             req |-> req, resp |-> resp,
                             prev |-> IF lastEvent.op = "poiResolved" /\ lastEvent.ok
                                      THEN lastEvent.req.n ELSE 0]
    /\ loadingPOI' = IF mounted /\ poiRequests[i].via = "nearby" THEN FALSE
                     ELSE loadingPOI
    /\ poiRequests' = RemoveAt(poiRequests, i)
    /\ clearedByUser' = StillQueued(clearedByUser, geoQueue)
    /\ UNCHANGED <<budget, locError, poiCategory, geoQueue, preloadPending, locPending,
                   routePending>>

\* The Send button: sendMessage up to its first await, for an input whose
\* trimmed text is `chat.text`; llm is what hasLLMConfig() returns.
SendMessage(chat, llm) ==
    /\ mounted
    /\ budget.chat > 0
    /\ budget' = [budget EXCEPT !.chat = @ - 1,
                                !.issued = IF chat.text # "" /\ (llm \/ (coords # None
                                                /\ InferCategory(chat.matches) # None))
                                           THEN @ + 1 ELSE @]
    /\ LET said == Say(messages, chat.text)
           inferred == InferCategory(chat.matches)
           loc == IF coords # None
                  THEN " You are near (" \o ToFixed4(coords[1].lat) \o ", "
                       \o ToFixed4(coords[1].lon) \o ")."
                  ELSE ""
       IN  IF chat.text = ""
           THEN UNCHANGED <<messages, poiRequests>>
           ELSE IF llm
           THEN /\ Len(poiRequests) < budget.flight
                /\ messages' = said
                /\ poiRequests' = Append(poiRequests,
                                         [via |-> "llm", coords |-> coords, category |-> "",
                                          n |-> budget.issued + 1])
           ELSE IF coords # None /\ inferred # None
           THEN /\ Len(poiRequests) < budget.flight
                /\ messages' = said
                /\ poiRequests' = Append(poiRequests,
                                         [via |-> "chat", coords |-> coords[1],
                                          category |-> inferred[1],
                                          n |-> budget.issued + 1])
           ELSE /\ messages' = Say(said, "LLM not configured." \o loc
                                   \o " Use the Nearby button or share location for recommendations.")
                /\ UNCHANGED poiRequests
    /\ lastEvent' = [op |-> "sendMessage", chat |-> chat, llm |-> llm]
    /\ UNCHANGED <<mounted, coords, locError, loadingPOI, places, poiCategory,
                   routeSteps, nextTurnText, nextTurnDistance,
                   watchIdRef, nextTurnMarkerRef, routePolylineRef, mapRef,
                   effectCleanup, watches, geoQueue, preloadPending, locPending,
                   routePending, watchStarts, clearedByUser>>

\* sendMessage after `await llmChat(...)`: the i-th outstanding request, a
\* chat completion, is answered by reply.
LlmReplied(i, reply) ==
    /\ i \in 1 .. Len(poiRequests)
    /\ poiRequests[i].via = "llm"
    /\ poiRequests' = RemoveAt(poiRequests, i)
    /\ messages' = IF ~mounted THEN messages
                   ELSE IF ~reply.ok
                   THEN Say(messages, "Chat service is unavailable at the moment.")
                   ELSE IF reply.content = None THEN Say(messages, "No response")
                   ELSE Say(messages, reply.content[1])
    /\ lastEvent' = [op |-> "llmReplied", ok |-> reply.ok]
    /\ UNCHANGED <<budget, mounted, coords, locError, loadingPOI, places, poiCategory,
                   routeSteps, nextTurnText, nextTurnDistance,
                   watchIdRef, nextTurnMarkerRef, routePolylineRef, mapRef,
                   effectCleanup, watches, geoQueue, preloadPending, locPending,
                   routePending, watchStarts, clearedByUser>>

\* The "Route on map" button of the k-th place of the list: routeTo(place)
\* up to its await.  The list is rendered while loadingPOI is false.
RouteTo(k) ==
    /\ mounted
    /\ ~loadingPOI
    /\ k \in 1 .. Len(places)
    /\ IF coords = None \/ mapRef = None
       THEN /\ messages' = Say(messages, "Share your location to draw a route.")
            /\ UNCHANGED routePending
       ELSE /\ Len(routePending) < budget.flight
            /\ routePending' = Append(routePending, [to |-> places[k].id,
                                                     n |-> budget.issued + 1,
                                                     cleared |-> FALSE])
            /\ UNCHANGED messages
    /\ budget.route > 0
    /\ budget' = [budget EXCEPT !.route = @ - 1,
                                !.issued = IF coords = None \/ mapRef = None THEN @
                                           ELSE @ + 1]
    /\ lastEvent' = [op |-> "routeTo"]
    /\ UNCHANGED <<mounted, coords, locError, loadingPOI, places, poiCategory,
                   routeSteps, nextTurnText, nextTurnDistance,
                   watchIdRef, nextTurnMarkerRef, routePolylineRef, mapRef,
                   effectCleanup, watches, geoQueue, preloadPending, locPending,
                   poiRequests, watchStarts, clearedByUser>>

\* routeTo after its await: the i-th outstanding request is answered by resp.
RouteResolved(i, resp) ==
    /\ i \in 1 .. Len(routePending)
    /\ routePending' = RemoveAt(routePending, i)
    /\ Install(RunEffects(routeToResolved(Component, resp), geoQueue,
                          FALSE, FALSE, mounted /\ ~RouteThrows(resp)))
    /\ messages' = IF mounted /\ RouteThrows(resp)
                   THEN Say(messages, "Could not draw route on the map.")
                   ELSE messages
    /\ clearedByUser' = StillQueued(clearedByUser, geoQueue)
    /\ lastEvent' = [op |-> "routeResolved", ok |-> ~RouteThrows(resp),
                     req |-> routePending[i], resp |-> resp,
                     prev |-> IF lastEvent.op = "routeResolved" /\ lastEvent.ok
                              THEN lastEvent.req.n ELSE 0]
    /\ UNCHANGED <<budget, locError, loadingPOI, poiCategory, geoQueue,
                   preloadPending, locPending, poiRequests>>

\* The Clear Route button (disabled while routeSteps is empty).  The
\* routing requests outstanding at that moment are marked: `cleared` records
\* that the route was cleared after the request was sent.
ClearRoute ==
    /\ mounted
    /\ Len(routeSteps) > 0
    /\ Install(RunEffects(clearRoute(Component), geoQueue, FALSE, FALSE, TRUE))
    /\ clearedByUser' = StillQueued(clearedByUser \cup
                                      (IF watchIdRef # None THEN {watchIdRef[1]} ELSE {}),
                                    geoQueue)
    /\ lastEvent' = [op |-> "clearRoute", watching |-> watchIdRef # None,
                     marked |-> nextTurnMarkerRef # None]
    /\ routePending' = [i \in 1 .. Len(routePending) |->
                           [routePending[i] EXCEPT !.cleared = TRUE]]
    /\ UNCHANGED <<budget, locError, loadingPOI, poiCategory, messages, geoQueue,
                   preloadPending, locPending, poiRequests>>

\* The platform acquires position c for a registered watch and queues a task
\* that will invoke the watch's success callback.
PositionFix(w, c) ==
    /\ w \in watches
    /\ Len(geoQueue) < MaxQueue
    /\ geoQueue' = Append(geoQueue, [watch |-> w.id, steps |-> w.steps, pos |-> Some(c)])
    /\ budget.fix > 0
    /\ budget' = [budget EXCEPT !.fix = @ - 1]
    /\ lastEvent' = [op |-> "fix"]
    /\ UNCHANGED <<mounted, coords, locError, loadingPOI, places, poiCategory,
                   messages, routeSteps, nextTurnText, nextTurnDistance,
                   watchIdRef, nextTurnMarkerRef, routePolylineRef, mapRef,
                   effectCleanup, watches, preloadPending, locPending,
                   poiRequests, routePending, watchStarts, clearedByUser>>

\* The platform fails to acquire a position for a registered watch and queues
\* a task that will invoke the watch's error callback.
PositionFailure(w) ==
    /\ w \in watches
    /\ Len(geoQueue) < MaxQueue
    /\ geoQueue' = Append(geoQueue, [watch |-> w.id, steps |-> w.steps, pos |-> None])
    /\ budget.fix > 0
    /\ budget' = [budget EXCEPT !.fix = @ - 1]
    /\ lastEvent' = [op |-> "failure"]
    /\ UNCHANGED <<mounted, coords, locError, loadingPOI, places, poiCategory,
                   messages, routeSteps, nextTurnText, nextTurnDistance,
                   watchIdRef, nextTurnMarkerRef, routePolylineRef, mapRef,
                   effectCleanup, watches, preloadPending, locPending,
                   poiRequests, routePending, watchStarts, clearedByUser>>

\* The oldest queued task runs: the success callback of its watch.
DeliverPosition ==
    /\ geoQueue # <<>>
    /\ Head(geoQueue).pos # None
    /\ LET task == Head(geoQueue)
       IN  /\ Install(RunEffects(WatchSuccess(Component, task.steps, task.pos[1]),
                                 Tail(geoQueue), TRUE, FALSE, FALSE))
           /\ lastEvent' = [op |-> "position", watch |-> task.watch]
    /\ geoQueue' = Tail(geoQueue)
    /\ clearedByUser' = StillQueued(clearedByUser, Tail(geoQueue))
    /\ UNCHANGED <<budget, locError, loadingPOI, poiCategory, messages,
                   preloadPending, locPending, poiRequests, routePending>>

\* The oldest queued task runs: the error callback of its watch.
DeliverError ==
    /\ geoQueue # <<>>
    /\ Head(geoQueue).pos = None
    /\ Install(WatchError(Component))
    /\ geoQueue' = Tail(geoQueue)
    /\ clearedByUser' = StillQueued(clearedByUser, Tail(geoQueue))
    /\ lastEvent' = [op |-> "positionError", watch |-> Head(geoQueue).watch]
    /\ UNCHANGED <<budget, locError, loadingPOI, poiCategory, messages,
                   preloadPending, locPending, poiRequests, routePending>>

\* The component unmounts (the Tour tab is left): React runs the cleanup the
\* guidance effect returned, and drops the component's state updates from
\* then on.
Unmount ==
    /\ mounted
    /\ Install([GuidanceCleanup(Component) EXCEPT !.mounted = FALSE,
                                                  !.effectCleanup = FALSE])
    /\ lastEvent' = [op |-> "unmount"]
    /\ UNCHANGED <<budget, locError, loadingPOI, poiCategory, messages, geoQueue,
                   preloadPending, locPending, poiRequests, routePending,
                   clearedByUser>>

Next ==
    \/ \E c \in PositionSamples : PreloadSuccess(c)
    \/ PreloadError
    \/ RequestLocation
    \/ \E c \in PositionSamples : LocationSuccess(c)
    \/ LocationError
    \/ \E k \in CategorySamples : SelectCategory(k)
    \/ LoadPOIs
    \/ \E i \in 1 .. Len(poiRequests), resp \in OverpassResponses : PoiResolved(i, resp)
    \/ \E k \in 1 .. Len(places) : RouteTo(k)
    \/ \E i \in 1 .. Len(routePending), resp \in RouteResponses : RouteResolved(i, resp)
    \/ ClearRoute
    \/ \E w \in watches, c \in PositionSamples : PositionFix(w, c)
    \/ \E w \in watches : PositionFailure(w)
    \/ DeliverPosition
    \/ DeliverError
    \/ Unmount

Spec == Init /\ [][Next]_vars


(***************************************************************************)
(* The watch callback as a function of its inputs: the component is        *)
(* guiding along `steps` at position LatLon(1, 1) after one nearby query,  *)
(* and the platform has queued one position c for the watch.  The only     *)
(* step is the delivery of that position.                                  *)
(***************************************************************************)
GuidingWithQueuedFix(steps, c) ==
    LET c0 == LatLon(1, 1)
        found == OverpassPlaces(ElementsSample, c0, "restaurant")
        poly == LatLngs(GeometrySample)
    IN  /\ mounted = TRUE
        /\ coords = Some(c0)
        /\ locError = None
        /\ loadingPOI = FALSE
        /\ places = found
        /\ poiCategory = "restaurant"
        /\ messages = Say(<<>>, "Nearby restaurant: " \o JoinSummary(found, 5))
        /\ routeSteps = steps
        /\ nextTurnText = None
        /\ nextTurnDistance = None
        /\ watchIdRef = Some(1)
        /\ nextTurnMarkerRef = None
        /\ routePolylineRef = Some(poly)
        /\ mapRef = fitBounds({poly[i] : i \in 1 .. Len(poly)})
        /\ effectCleanup = TRUE
        /\ watches = {[id |-> 1, steps |-> steps]}
        /\ geoQueue = <<[watch |-> 1, steps |-> steps, pos |-> Some(c)]>>
        /\ preloadPending = FALSE
        /\ locPending = 0
        /\ poiRequests = <<>>
        /\ routePending = <<>>
        /\ watchStarts = 1
        /\ clearedByUser = {}
        /\ lastEvent = [op |-> "fix"]
        /\ budget = [fix |-> 0, route |-> 0, poi |-> 0, loc |-> 0, cat |-> 0, chat |-> 0,
                     flight |-> MaxInFlight, issued |-> 0]

NextCallback == DeliverPosition

\* Step lists of up to MaxSteps steps; step i is named after its index, and
\* has no maneuver or a "turn" at any [lon, lat] of the grid.
MaxSteps == 3

StepName(i) == "street " \o ToString(i)

ManeuverOptions ==
    {None} \cup {Some(Maneuver(Some("turn"), None, lon, lat)) : lon \in Degrees, lat \in Degrees}

IndexedRoutes ==
    UNION {{[i \in 1 .. n |-> Step(StepName(i), f[i])] : f \in [1 .. n -> ManeuverOptions]}
           : n \in 1 .. MaxSteps}

InitNearest ==
    \E steps \in IndexedRoutes, c \in Coords : GuidingWithQueuedFix(steps, c)

SpecNearest == InitNearest /\ [][NextCallback]_vars

\* One-step routes over every combination of an absent, empty or non-empty
\* type and modifier and an empty or non-empty street name.
OptionalText(str) == {None, Some(""), Some(str)}

TextRoutes ==
    {<<Step(name, Some(Maneuver(type, modifier, 2, 1)))>> :
        name \in {"", "Main St"},
        type \in OptionalText("turn"),
        modifier \in OptionalText("left")}

InitText ==
    \E steps \in TextRoutes, c \in Coords : GuidingWithQueuedFix(steps, c)

SpecText == InitText /\ [][NextCallback]_vars


(***************************************************************************)
(* fetchOverpassPlaces as a function of the response: the component has    *)
(* coordinates c, the Nearby button was pressed, and the request is        *)
(* outstanding.  The only step is its answer, an ok response whose body    *)
(* lists up to MaxElements elements, the i-th with id i.                   *)
(***************************************************************************)
NearbyRequested(c, category) ==
    /\ mounted = TRUE
    /\ coords = Some(c)
    /\ locError = None
    /\ loadingPOI = TRUE
    /\ places = <<>>
    /\ poiCategory = category
    /\ messages = Say(<<>>, "Location set to (" \o ToFixed4(c.lat) \o ", "
                            \o ToFixed4(c.lon) \o ").")
    /\ routeSteps = <<>>
    /\ nextTurnText = None
    /\ nextTurnDistance = None
    /\ watchIdRef = None
    /\ nextTurnMarkerRef = None
    /\ routePolylineRef = None
    /\ mapRef = setView(c.lat, c.lon, 14)
    /\ effectCleanup = FALSE
    /\ watches = {}
    /\ geoQueue = <<>>
    /\ preloadPending = FALSE
    /\ locPending = 0
    /\ poiRequests = <<[via |-> "nearby", coords |-> c, category |-> category, n |-> 1]>>
    /\ routePending = <<>>
    /\ watchStarts = 0
    /\ clearedByUser = {}
    /\ lastEvent = [op |-> "loadPOIs"]
    /\ budget = [fix |-> 0, route |-> 0, poi |-> 0, loc |-> 0, cat |-> 0, chat |-> 0,
                 flight |-> MaxInFlight, issued |-> 1]

MaxElements == 4

\* What one element of the body can look like, apart from its id: its own
\* point, or a centre, with coordinates present, zero, absent or not a number.
ElementShapes ==
    {[lat |-> Some(1), lon |-> Some(2), center |-> None,
      tags |-> Some(Tags(Some("Luigi"), Some("restaurant"), None))],
     [lat |-> Some(2), lon |-> Some(2), center |-> None, tags |-> None],
     [lat |-> None, lon |-> None, center |-> Some([lat |-> Some(2), lon |-> Some(1)]),
      tags |-> None],
     [lat |-> Some(0), lon |-> Some(1), center |-> None, tags |-> None],
     [lat |-> None, lon |-> None, center |-> None, tags |-> None],
     [lat |-> None, lon |-> None, center |-> Some([lat |-> None, lon |-> Some(1)]),
      tags |-> None],
     [lat |-> None, lon |-> None,
      center |-> Some([lat |-> Some(NonNumeric), lon |-> Some(1)]), tags |-> None]}

ElementLists ==
    UNION {{[i \in 1 .. n |-> Element(i, f[i].lat, f[i].lon, f[i].center, f[i].tags)]
              : f \in [1 .. n -> ElementShapes]}
           : n \in 0 .. MaxElements}

PlaceResponses ==
    {[ok |-> TRUE, body |-> Some([elements |-> Some(els)])] : els \in ElementLists}

InitPlaces == NearbyRequested(LatLon(1, 1), "restaurant")

NextPlaces == \E resp \in PlaceResponses : PoiResolved(1, resp)

SpecPlaces == InitPlaces /\ [][NextPlaces]_vars

(***************************************************************************)
(* Overlapping requests: the component has coordinates and a map, and the  *)
(* user presses Nearby, changes the category, sends chat messages and      *)
(* presses "Route on map" while up to MaxConcurrent requests of a kind     *)
(* await their answers; the answers arrive in any order.                   *)
(***************************************************************************)
MaxConcurrent == 2   \* requests of one kind awaiting their answer
MaxQueries == 2      \* presses of the Nearby button
MaxChats == 1        \* chat messages the user sends

Located(c) ==
    /\ mounted = TRUE
    /\ coords = Some(c)
    /\ locError = None
    /\ loadingPOI = FALSE
    /\ places = <<>>
    /\ poiCategory = "restaurant"
    /\ messages = Say(<<>>, "Location set to (" \o ToFixed4(c.lat) \o ", "
                            \o ToFixed4(c.lon) \o ").")
    /\ routeSteps = <<>>
    /\ nextTurnText = None
    /\ nextTurnDistance = None
    /\ watchIdRef = None
    /\ nextTurnMarkerRef = None
    /\ routePolylineRef = None
    /\ mapRef = setView(c.lat, c.lon, 14)
    /\ effectCleanup = FALSE
    /\ watches = {}
    /\ geoQueue = <<>>
    /\ preloadPending = FALSE
    /\ locPending = 0
    /\ watchStarts = 0
    /\ clearedByUser = {}
    /\ lastEvent = [op |-> "location", pos |-> c]

InitQueries ==
    /\ Located(LatLon(1, 1))
    /\ poiRequests = <<>>
    /\ routePending = <<>>
    /\ budget = [fix |-> 0, route |-> MaxRoutes, poi |-> MaxQueries, loc |-> 0,
                 cat |-> MaxCategoryChanges, chat |-> MaxChats,
                 flight |-> MaxConcurrent, issued |-> 0]

NextQueries ==
    \/ \E k \in CategorySamples : SelectCategory(k)
    \/ LoadPOIs
    \/ \E i \in 1 .. Len(poiRequests), resp \in OverpassResponses : PoiResolved(i, resp)
    \/ \E chat \in ChatSamples, llm \in BOOLEAN : SendMessage(chat, llm)
    \/ \E i \in 1 .. Len(poiRequests), reply \in LlmReplies : LlmReplied(i, reply)
    \/ \E k \in 1 .. Len(places) : RouteTo(k)
    \/ \E i \in 1 .. Len(routePending), resp \in RouteResponses : RouteResolved(i, resp)
    \/ ClearRoute
    \/ Unmount

SpecQueries == InitQueries /\ [][NextQueries]_vars

(***************************************************************************)
(* routeTo as a function of the response: the component has coordinates    *)
(* and a map, "Route on map" was pressed for a place and the request is    *)
(* outstanding.  The only step is its answer, an ok response with up to    *)
(* MaxAlternatives routes of up to MaxLegs legs each.                      *)
(***************************************************************************)
MaxAlternatives == 2
MaxLegs == 2

RouteRequested(c) ==
    /\ Located(c)
    /\ poiRequests = <<>>
    /\ routePending = <<[to |-> 1, n |-> 1, cleared |-> FALSE]>>
    /\ budget = [fix |-> 0, route |-> 0, poi |-> 0, loc |-> 0, cat |-> 0, chat |-> 0,
                 flight |-> MaxInFlight, issued |-> 1]

\* geometry.coordinates of a route: [lon, lat] pairs.
GeometrySamples == {<<<<0, 1>>>>, GeometrySample, <<<<2, 0>>, <<1, 0>>, <<1, 2>>>>}

StepsSamples == {<<>>, RouteTwo, RouteTie, RouteNoManeuver}

LegLists ==
    UNION {{[i \in 1 .. n |-> [steps |-> f[i]]] : f \in [1 .. n -> StepsSamples]}
           : n \in 0 .. MaxLegs}

Alternatives == {[geometry |-> g, legs |-> l] : g \in GeometrySamples, l \in LegLists}

AlternativeLists == UNION {[1 .. n -> Alternatives] : n \in 1 .. MaxAlternatives}

DrawableResponses ==
    {[ok |-> TRUE, body |-> Some([routes |-> rs])] : rs \in AlternativeLists}

InitRoute == RouteRequested(LatLon(1, 1))

NextRoute == \E resp \in DrawableResponses : RouteResolved(1, resp)

SpecRoute == InitRoute /\ [][NextRoute]_vars

(***************************************************************************)
(* Repeated location requests: the component has just mounted, and the     *)
(* user presses Share Location up to MaxLocationTries times, each request  *)
(* succeeding or failing, around one nearby query and one route.           *)
(***************************************************************************)
MaxLocationTries == 2

InitLocation ==
    /\ Mounted
    /\ budget = [fix |-> 0, route |-> 1, poi |-> 1, loc |-> MaxLocationTries,
                 cat |-> 0, chat |-> 0, flight |-> MaxInFlight, issued |-> 0]

NextLocation ==
    \/ \E c \in PositionSamples : PreloadSuccess(c)
    \/ PreloadError
    \/ RequestLocation
    \/ \E c \in PositionSamples : LocationSuccess(c)
    \/ LocationError
    \/ LoadPOIs
    \/ \E i \in 1 .. Len(poiRequests), resp \in OverpassResponses : PoiResolved(i, resp)
    \/ \E k \in 1 .. Len(places) : RouteTo(k)
    \/ \E i \in 1 .. Len(routePending), resp \in RouteResponses : RouteResolved(i, resp)

SpecLocation == InitLocation /\ [][NextLocation]_vars

(***************************************************************************)
(* sendMessage as a function of its inputs: the component has just mounted *)
(* (no coordinate) or has a coordinate and a map; one chat message is      *)
(* sent, whose text matches any set of the five patterns, with or without  *)
(* a language model configured, and its request, if any, is answered.      *)
(***************************************************************************)
Patterns == {"post_office", "restaurant", "cafe", "museum", "tourism"}

ChatInputs ==
    {[text |-> "", matches |-> {}]}
    \cup {[text |-> "where to?", matches |-> m] : m \in SUBSET Patterns}

InitChat ==
    /\ \/ Mounted
       \/ /\ Located(LatLon(1, 1))
          /\ poiRequests = <<>>
          /\ routePending = <<>>
    /\ budget = [fix |-> 0, route |-> 0, poi |-> 0, loc |-> 0, cat |-> 0,
                 chat |-> MaxChats, flight |-> MaxInFlight, issued |-> 0]

NextChat ==
    \/ \E chat \in ChatInputs, llm \in BOOLEAN : SendMessage(chat, llm)
    \/ \E i \in 1 .. Len(poiRequests), resp \in OverpassResponses : PoiResolved(i, resp)
    \/ \E i \in 1 .. Len(poiRequests), reply \in LlmReplies : LlmReplied(i, reply)

SpecChat == InitChat /\ [][NextChat]_vars


(***************************************************************************)
(* Properties.                                                             *)
(***************************************************************************)
\* A step of the model in which the oldest queued task ran a watch's success
\* callback.
DeliveredPosition ==
    /\ geoQueue # <<>>
    /\ Head(geoQueue).pos # None
    /\ geoQueue' = Tail(geoQueue)
    /\ lastEvent'.op = "position"

\* The steps of a list that carry a maneuver.
ManeuverBearing(steps) == {i \in 1 .. Len(steps) : steps[i].maneuver # None}

\* C1: after clearRoute has cancelled a watch, the delivery of a position
\* update that was already queued for that watch changes neither the next-turn
\* text, nor the next-turn distance, nor the next-turn marker.
C1_ClearedWatchUpdateChangesNothing ==
    [][(DeliveredPosition /\ Head(geoQueue).watch \in clearedByUser)
         => UNCHANGED <<nextTurnText, nextTurnDistance, nextTurnMarkerRef>>]_vars

\* C2: in every reachable state at most one platform position watch is
\* registered, and it is the one whose handle watchIdRef holds.
C2_AtMostOneWatch ==
    /\ Cardinality(watches) <= 1
    /\ \A w \in watches : watchIdRef = Some(w.id)

\* C2 witness: the effect has started a watch for the second time on the same
\* route, and exactly one watch is registered.
C2_Witness ==
    /\ watchStarts >= 2
    /\ Cardinality(watches) = 1

\* C3: between the moment a route is set and the moment it is cleared or
\* replaced, watchPosition is called at most once.
C3_WatchStartedOncePerRoute == watchStarts <= 1

\* C4: no watch is leaked: once the route is cleared, the step list is empty
\* or the component is torn down (and the effects that follow have run), no
\* started watch remains uncancelled.
C4_NoWatchLeaked ==
    (~mounted \/ Len(routeSteps) = 0 \/ lastEvent.op = "clearRoute") => watches = {}

\* C4 witness: clearRoute has just run while a watch was active.
C4_Witness ==
    /\ lastEvent.op = "clearRoute"
    /\ lastEvent.watching
    /\ watches = {}

\* C5: whenever the mounted component holds both a current coordinate and a
\* route with at least one step, a position watch is registered for it: its
\* handle is in watchIdRef and its callback closes over the current steps.
C5_GuidanceStartsAutomatically ==
    (mounted /\ coords # None /\ Len(routeSteps) >= 1)
      => /\ watchIdRef # None
         /\ [id |-> watchIdRef[1], steps |-> routeSteps] \in watches

\* C5 witness: a routing result with steps has just arrived and a watch is
\* registered, no position update having been asked for or delivered.
C5_Witness ==
    /\ lastEvent.op = "routeResolved"
    /\ lastEvent.ok
    /\ Len(routeSteps) >= 1
    /\ budget.fix = MaxFixes
    /\ watches # {}

\* C6: a route with an empty step list never starts guidance: while
\* routeSteps is empty no watch is registered and watchIdRef is null, and no
\* registered watch was ever started for an empty step list.
C6_EmptyRouteNeverGuides ==
    /\ Len(routeSteps) = 0 => (watches = {} /\ watchIdRef = None)
    /\ \A w \in watches : Len(w.steps) >= 1

\* C6 witness: a routing result whose first leg has no steps has replaced a
\* route that was being guided (its polyline is drawn, the old guidance text
\* is still there), and no watch is registered.
C6_Witness ==
    /\ lastEvent.op = "routeResolved"
    /\ lastEvent.ok
    /\ Len(routeSteps) = 0
    /\ routePolylineRef # None
    /\ nextTurnText # None
    /\ watches = {}

\* C7: whenever the active step list is empty, next-turn text and next-turn
\* distance are both null.
C7_EmptyRouteNullGuidance ==
    Len(routeSteps) = 0 => (nextTurnText = None /\ nextTurnDistance = None)

\* C8: after a position update c, the step selected is a maneuver-bearing
\* step at minimal distance from c, the earliest such step, with each
\* location [lon, lat] read as lat = location[2], lon = location[1] (1-based);
\* the emitted distance is that minimum rounded to the nearest integer, and
\* the text and the marker are those of the selected step.
C8_NearestManeuverSelected ==
    lastEvent.op = "position" =>
        LET c == coords[1]
            bearing == ManeuverBearing(routeSteps)
            LatOf(i) == routeSteps[i].maneuver[1].location[2]
            LonOf(i) == routeSteps[i].maneuver[1].location[1]
            D(i) == haversine(c, LatLon(LatOf(i), LonOf(i)))
        IN  bearing # {} =>
                \E i \in bearing :
                    /\ \A j \in bearing : D(i) <= D(j)
                    /\ \A j \in bearing : j < i => D(j) > D(i)
                    /\ nextTurnText = Some("turn on street " \o ToString(i))
                    /\ nextTurnDistance # None
                    /\ 1000 * nextTurnDistance[1] - 500 <= D(i)
                    /\ D(i) < 1000 * nextTurnDistance[1] + 500
                    /\ nextTurnMarkerRef = Some(<<LatOf(i), LonOf(i)>>)

\* C8 witness: steps [s0@M0, s1@M1], a position strictly closer to M1 than to
\* M0, and step 1 (the second) selected.
C8_Witness ==
    /\ lastEvent.op = "position"
    /\ Len(routeSteps) = 2
    /\ ManeuverBearing(routeSteps) = {1, 2}
    /\ haversine(coords[1], LatLon(routeSteps[2].maneuver[1].location[2],
                                    routeSteps[2].maneuver[1].location[1]))
         < haversine(coords[1], LatLon(routeSteps[1].maneuver[1].location[2],
                                       routeSteps[1].maneuver[1].location[1]))
    /\ nextTurnText = Some("turn on street 2")

\* C9: if no step of the active route has a maneuver, a position update sets
\* next-turn text and next-turn distance to null.
C9_NoManeuverNullsGuidance ==
    [][(DeliveredPosition /\ Len(routeSteps) >= 1 /\ ManeuverBearing(routeSteps) = {})
         => (nextTurnText' = None /\ nextTurnDistance' = None)]_vars

\* The parts of the guidance text of a one-step route.
TextType == routeSteps[1].maneuver[1].type
TextModifier == routeSteps[1].maneuver[1].modifier
TextName == routeSteps[1].name

\* C10 as stated: the text is the type, or 'Proceed' when the type is absent
\* or empty; then a space and the modifier when a modifier is present; then
\* ' on ' and the street name when the street name is non-empty.
C10_TextModifierWhenPresent ==
    lastEvent.op = "position" =>
        nextTurnText =
            Some((IF TextType = None \/ TextType = Some("") THEN "Proceed" ELSE TextType[1])
                 \o (IF TextModifier # None THEN " " \o TextModifier[1] ELSE "")
                 \o (IF TextName # "" THEN " on " \o TextName ELSE ""))

\* C10 amended: as stated, but the space and the modifier follow only when
\* the modifier is present and non-empty.
C10_TextModifierWhenNonEmpty ==
    lastEvent.op = "position" =>
        nextTurnText =
            Some((IF TextType = None \/ TextType = Some("") THEN "Proceed" ELSE TextType[1])
                 \o (IF TextModifier # None /\ TextModifier # Some("")
                     THEN " " \o TextModifier[1] ELSE "")
                 \o (IF TextName # "" THEN " on " \o TextName ELSE ""))

\* C10 witness: a step with a type, a modifier and a street name was selected.
C10_Witness ==
    /\ lastEvent.op = "position"
    /\ TextType = Some("turn")
    /\ TextModifier = Some("left")
    /\ TextName = "Main St"
    /\ nextTurnText = Some("turn left on Main St")


\* C11: a position-update error while guiding changes nothing: the step that
\* runs the error callback leaves coords, routeSteps, next-turn text, next-turn
\* distance, the next-turn marker, the watch handle and the registered watch
\* as they were, so the next successful update is still processed; and while
\* the component lives, a step after which no watch is registered any more
\* is one that leaves the step list empty (a route clear or an empty route).
C11_PositionErrorChangesNothing ==
    [][/\ lastEvent'.op = "positionError"
          => UNCHANGED <<coords, routeSteps, nextTurnText, nextTurnDistance,
                         nextTurnMarkerRef, watchIdRef, watches>>
       /\ (mounted' /\ watches # {} /\ watches' = {}) => Len(routeSteps') = 0]_vars

\* C11 witness: the error callback has just run while guiding with guidance
\* on screen, and the watch is still registered.
C11_Witness ==
    /\ lastEvent.op = "positionError"
    /\ mounted
    /\ nextTurnText # None
    /\ nextTurnMarkerRef # None
    /\ watchIdRef = Some(lastEvent.watch)
    /\ [id |-> lastEvent.watch, steps |-> routeSteps] \in watches

\* C12: a route replacement is atomic with respect to position updates: a
\* position update delivered while a (new) route is active computes the next
\* maneuver, its text and its distance from the steps of that route only.
C12_UpdateUsesCurrentRoute ==
    [][(DeliveredPosition /\ mounted /\ Len(routeSteps) >= 1)
         => LET c == Head(geoQueue).pos[1]
                best == NearestManeuver(routeSteps, c)
            IN  IF best.bestIdx >= 1
                THEN /\ nextTurnText' = Some(NextTurnTextOf(routeSteps[best.bestIdx]))
                     /\ nextTurnDistance' = Some(MathRound(best.bestDist))
                ELSE /\ nextTurnText' = None
                     /\ nextTurnDistance' = None]_vars

\* A nearby query has just been answered by an ok response with a list of
\* elements; `places` then holds what fetchOverpassPlaces returned.
PlacesReturned ==
    /\ lastEvent.op = "poiResolved"
    /\ lastEvent.ok
    /\ lastEvent.resp.body[1].elements # None

ReturnedFrom == lastEvent.resp.body[1].elements[1]

\* The features that pass the coordinate filter: both resolved coordinates
\* are non-zero.
PassedFilter ==
    {k \in 1 .. Len(ReturnedFrom) :
        ResolvedLat(ReturnedFrom[k]) # 0 /\ ResolvedLon(ReturnedFrom[k]) # 0}

\* The position in the response of the feature a returned place was made of.
ServiceIndex(p) == CHOOSE k \in 1 .. Len(ReturnedFrom) : ToString(k) = p.id

\* C13: the list fetchOverpassPlaces returns is sorted ascending by
\* distanceMeters (every adjacent pair satisfies p[i].distanceMeters <=
\* p[i+1].distanceMeters) and is a permutation of the features that passed
\* the coordinate filter.
C13_SortedByDistance ==
    PlacesReturned =>
        /\ \A i \in 1 .. (Len(places) - 1) :
              /\ places[i].distanceMeters # None
              /\ places[i + 1].distanceMeters # None
              /\ places[i].distanceMeters[1] # NaN
              /\ places[i + 1].distanceMeters[1] # NaN
              /\ places[i].distanceMeters[1] <= places[i + 1].distanceMeters[1]
        /\ Len(places) = Cardinality(PassedFilter)
        /\ {places[i].id : i \in 1 .. Len(places)} = {ToString(k) : k \in PassedFilter}

C15_NoZeroCoordinate ==
    PlacesReturned =>
        /\ \A i \in 1 .. Len(places) : places[i].lat # 0 /\ places[i].lon # 0
        /\ \A k \in 1 .. Len(ReturnedFrom) :
              LET el == ReturnedFrom[k]
              IN  (\/ (el.lat = None /\ el.lon = None /\ el.center = None)
                   \/ ResolvedLat(el) = 0
                   \/ ResolvedLon(el) = 0)
                      => \A i \in 1 .. Len(places) : places[i].id # ToString(k)

\* C15 witness: the response held a feature without any coordinate, a
\* feature with a zero latitude and a feature with a valid point; only the
\* last was returned.
C15_Witness ==
    /\ PlacesReturned
    /\ \E k \in 1 .. Len(ReturnedFrom) :
          ReturnedFrom[k].lat = None /\ ReturnedFrom[k].center = None
    /\ \E k \in 1 .. Len(ReturnedFrom) : ReturnedFrom[k].lat = Some(0)
    /\ Len(places) = 1
    /\ places[1].lat = 1
    /\ places[1].lon = 2

\* C16: every place fetchOverpassPlaces returns has a numerically valid lat
\* and lon and a distanceMeters equal to the rounded distance from the query
\* centre; a feature whose coordinates are not both numbers is not returned.
C16_ValidCoordinatesAndDistance ==
    PlacesReturned =>
        \A i \in 1 .. Len(places) :
            /\ places[i].lat # NonNumeric
            /\ places[i].lon # NonNumeric
            /\ places[i].distanceMeters # None
            /\ places[i].distanceMeters[1] # NaN
            /\ LET mm == haversine(lastEvent.req.coords,
                                   LatLon(places[i].lat, places[i].lon))
                   r == places[i].distanceMeters[1]
               IN  1000 * r - 500 <= mm /\ mm < 1000 * r + 500


\* C17: places changes only in the step in which a nearby-places query
\* succeeds, and then it is exactly a list that query returns for its
\* response (nothing of the previous list is kept).  When a query made with
\* the Nearby button fails, places is unchanged, "Could not load nearby
\* places right now." is appended to the chat and loadingPOI is false.
C17_PlacesReplacedOnSuccessOnly ==
    [][/\ (places' # places) => (lastEvent'.op = "poiResolved" /\ lastEvent'.ok)
       /\ (mounted /\ lastEvent'.op = "poiResolved" /\ lastEvent'.ok)
            => Some(places') \in fetchOverpassPlaces(lastEvent'.resp,
                                                     lastEvent'.req.coords,
                                                     lastEvent'.req.category)
       /\ (mounted /\ lastEvent'.op = "poiResolved" /\ ~lastEvent'.ok
             /\ lastEvent'.req.via = "nearby")
            => /\ places' = places
               /\ messages' = Say(messages, "Could not load nearby places right now.")
               /\ loadingPOI' = FALSE]_vars

\* A second query in a row has succeeded and its two places are shown.
C17_Witness ==
    /\ mounted
    /\ lastEvent.op = "poiResolved"
    /\ lastEvent.ok
    /\ lastEvent.prev > 0
    /\ lastEvent.req.via = "nearby"
    /\ Len(places) = 2
    /\ ~loadingPOI


\* C18: when the answer to a routing request is a failure (a non-ok status,
\* a body that does not parse, no route alternative, or a body whose route
\* cannot be drawn) while a route is active, the step leaves routeSteps,
\* the drawn polyline, the guidance state and the position watch unchanged
\* and only appends "Could not draw route on the map.".
C18_FailedRouteLeavesRouteUntouched ==
    [][(mounted /\ Len(routeSteps) > 0
          /\ lastEvent'.op = "routeResolved" /\ ~lastEvent'.ok)
         => /\ UNCHANGED <<routeSteps, routePolylineRef, nextTurnText, nextTurnDistance,
                          nextTurnMarkerRef, watchIdRef, watches>>
            /\ messages' = Say(messages, "Could not draw route on the map.")]_vars


\* C19: after a successful routing response the drawn line is the first
\* alternative's coordinate list with each [lon, lat] pair turned into
\* [lat, lon], of the same length and in the same order, and routeSteps is
\* exactly the steps of that alternative's first leg (empty when it has no
\* leg); the other alternatives and the later legs contribute nothing.
C19_FirstAlternativeFirstLeg ==
    (lastEvent.op = "routeResolved" /\ lastEvent.ok)
      => LET route == lastEvent.resp.body[1].routes[1]
         IN  /\ routePolylineRef # None
             /\ Len(routePolylineRef[1]) = Len(route.geometry)
             /\ \A i \in 1 .. Len(route.geometry) :
                  /\ routePolylineRef[1][i][1] = route.geometry[i][2]
                  /\ routePolylineRef[1][i][2] = route.geometry[i][1]
             /\ routeSteps = IF Len(route.legs) = 0 THEN <<>> ELSE route.legs[1].steps

\* The response had two alternatives with different lines, the first with
\* two legs of different steps; the first alternative's line is drawn and
\* its first leg's steps are the route.
C19_Witness ==
    /\ lastEvent.op = "routeResolved"
    /\ lastEvent.ok
    /\ Len(lastEvent.resp.body[1].routes) = 2
    /\ lastEvent.resp.body[1].routes[1].geometry
         # lastEvent.resp.body[1].routes[2].geometry
    /\ Len(lastEvent.resp.body[1].routes[1].geometry) = 3
    /\ Len(lastEvent.resp.body[1].routes[1].legs) = 2
    /\ lastEvent.resp.body[1].routes[1].legs[1].steps = RouteTwo
    /\ lastEvent.resp.body[1].routes[1].legs[2].steps = RouteTie
    /\ routeSteps = RouteTwo
    /\ routePolylineRef = Some(<<<<0, 2>>, <<0, 1>>, <<2, 1>>>>)


\* C20: an answer is applied when it arrives, whatever was applied before
\* it.  When the answer to request A arrives right after the answer to a
\* request B that was issued later than A, places becomes A's result (for
\* a places query) and the route becomes A's route (for a routing request):
\* the older request's answer overwrites the newer one's.
C20_StaleResponseOverwrites ==
    [][/\ (mounted /\ lastEvent'.op = "poiResolved" /\ lastEvent'.ok
             /\ lastEvent'.prev > lastEvent'.req.n)
            => Some(places') \in fetchOverpassPlaces(lastEvent'.resp,
                                                     lastEvent'.req.coords,
                                                     lastEvent'.req.category)
       /\ (mounted /\ lastEvent'.op = "routeResolved" /\ lastEvent'.ok
             /\ lastEvent'.prev > lastEvent'.req.n)
            => /\ routeSteps' = FirstLegSteps(lastEvent'.resp.body[1].routes[1])
               /\ routePolylineRef'
                    = Some(LatLngs(lastEvent'.resp.body[1].routes[1].geometry))]_vars

\* Nearby was pressed for restaurants (A), the category was changed to cafe
\* and Nearby was pressed again (B); B's answer was applied, then A's: the
\* list on show is A's, its untagged place carrying A's category.
C20_Witness ==
    /\ mounted
    /\ lastEvent.op = "poiResolved"
    /\ lastEvent.ok
    /\ lastEvent.prev > lastEvent.req.n
    /\ lastEvent.req.via = "nearby"
    /\ lastEvent.req.category = "restaurant"
    /\ poiCategory = "cafe"
    /\ \E j \in 1 .. Len(places) : places[j].id = "2" /\ places[j].category = "restaurant"


\* C21: the step that runs clearRoute ends with the step list empty, the
\* next-turn text and distance null, no route polyline and no next-turn
\* marker, no watch handle and no registered watch; coords and places are
\* what they were.
C21_ClearRouteResetsGuidance ==
    [][(lastEvent'.op = "clearRoute")
         => /\ routeSteps' = <<>>
            /\ nextTurnText' = None
            /\ nextTurnDistance' = None
            /\ routePolylineRef' = None
            /\ nextTurnMarkerRef' = None
            /\ watchIdRef' = None
            /\ watches' = {}
            /\ coords' = coords
            /\ places' = places]_vars

\* Clear Route was pressed while a watch was registered and a next-turn
\* marker was on the map.
C21_Witness ==
    /\ lastEvent.op = "clearRoute"
    /\ lastEvent.watching
    /\ lastEvent.marked
    /\ coords # None
    /\ places # <<>>
    /\ routeSteps = <<>>
    /\ nextTurnMarkerRef = None
    /\ watches = {}


\* C22: with coords null, pressing Nearby (loadPOIs) or "Route on map"
\* (routeTo) sends no request and leaves places, the route, the guidance
\* state and the watch as they were; the step only appends the message that
\* asks for the location.
C22_NoCoordinateNoRequest ==
    [][(coords = None /\ lastEvent'.op \in {"loadPOIs", "routeTo"})
         => /\ UNCHANGED <<poiRequests, routePending, places, loadingPOI, routeSteps,
                          routePolylineRef, nextTurnText, nextTurnDistance,
                          nextTurnMarkerRef, watchIdRef, watches>>
            /\ messages' = Say(messages,
                               IF lastEvent'.op = "loadPOIs"
                               THEN "Please share your location first."
                               ELSE "Share your location to draw a route.")]_vars

\* Nearby was pressed before any position was obtained.
C22_Witness ==
    /\ lastEvent.op = "loadPOIs"
    /\ coords = None
    /\ poiRequests = <<>>
    /\ ~loadingPOI
    /\ messages = Say(<<>>, "Please share your location first.")


\* C23: requestLocation's error callback sets the location error message
\* and leaves coords, places, the route and the guidance state unchanged; a
\* press of Share Location clears the error message; and requestLocation's
\* success callback sets coords to the position obtained.
C23_LocationErrorReportedNotFatal ==
    [][/\ (mounted /\ lastEvent'.op = "locationError")
            => /\ locError' # None
               /\ mounted'
               /\ UNCHANGED <<coords, places, routeSteps, routePolylineRef, nextTurnText,
                             nextTurnDistance, nextTurnMarkerRef, watchIdRef, watches>>
       /\ (lastEvent'.op = "requestLocation") => locError' = None
       /\ (mounted /\ lastEvent'.op = "location") => coords' = Some(lastEvent'.pos)]_vars

\* A location request failed while a list of places was shown, and Share
\* Location was pressed again: the error message is cleared and the retry is
\* outstanding.
C23_Witness ==
    /\ lastEvent.op = "requestLocation"
    /\ lastEvent.cleared
    /\ locError = None
    /\ locPending = 1
    /\ places # <<>>


\* The categories in the order sendMessage tries their patterns.
CategoryOrder == <<"post_office", "restaurant", "cafe", "museum", "tourism">>

\* C24: when a non-empty message is sent, places is unchanged by the send.
\* With a language model configured the message goes to the model and no
\* places query is made.  Without one, the message resolves to the first
\* category in the order postal, food, cafe, museum, attraction whose
\* pattern it matches; if there is one and coords exist, one places query
\* for that category at coords is issued; otherwise no request is made and
\* the reply "LLM not configured. ..." is appended.
C24_IntentInference ==
    [][(lastEvent'.op = "sendMessage" /\ lastEvent'.chat.text # "")
         => LET m == lastEvent'.chat.matches
                hits == {i \in 1 .. Len(CategoryOrder) : CategoryOrder[i] \in m}
                first == CHOOSE i \in hits : \A j \in hits : i <= j
                said == Say(messages, lastEvent'.chat.text)
                loc == IF coords = None THEN ""
                       ELSE " You are near (" \o ToFixed4(coords[1].lat) \o ", "
                            \o ToFixed4(coords[1].lon) \o ")."
            IN  /\ places' = places
                /\ lastEvent'.llm
                     => /\ Len(poiRequests') = Len(poiRequests) + 1
                        /\ poiRequests'[Len(poiRequests')].via = "llm"
                        /\ messages' = said
                /\ (~lastEvent'.llm /\ coords # None /\ hits # {})
                     => /\ Len(poiRequests') = Len(poiRequests) + 1
                        /\ poiRequests'[Len(poiRequests')].via = "chat"
                        /\ poiRequests'[Len(poiRequests')].category = CategoryOrder[first]
                        /\ poiRequests'[Len(poiRequests')].coords = coords[1]
                        /\ messages' = said
                /\ (~lastEvent'.llm /\ (coords = None \/ hits = {}))
                     => /\ poiRequests' = poiRequests
                        /\ messages' = Say(said, "LLM not configured." \o loc
                             \o " Use the Nearby button or share location for recommendations.")]_vars

\* Without a language model and with coords, a message matching the food,
\* cafe and attraction patterns was sent: one query for restaurants is out.
C24_Witness ==
    /\ lastEvent.op = "sendMessage"
    /\ ~lastEvent.llm
    /\ lastEvent.chat.matches = {"restaurant", "cafe", "tourism"}
    /\ coords # None
    /\ Len(poiRequests) = 1
    /\ poiRequests[1].via = "chat"
    /\ poiRequests[1].category = "restaurant"


\* C25: a request to the places, routing or chat service is sent only by
\* the step of a user action (Nearby, Send, "Route on map"), one request per
\* action; the step in which a request is answered, successfully or not,
\* sends none: the outstanding requests are the others that were outstanding.
C25_NoAutomaticRetry ==
    [][/\ (Len(poiRequests') > Len(poiRequests))
            => /\ lastEvent'.op \in {"loadPOIs", "sendMessage"}
               /\ Len(poiRequests') = Len(poiRequests) + 1
               /\ UNCHANGED routePending
       /\ (Len(routePending') > Len(routePending))
            => /\ lastEvent'.op = "routeTo"
               /\ Len(routePending') = Len(routePending) + 1
               /\ UNCHANGED poiRequests
       /\ (lastEvent'.op \in {"poiResolved", "llmReplied"})
            => /\ \E i \in 1 .. Len(poiRequests) :
                    poiRequests' = SubSeq(poiRequests, 1, i - 1)
                                     \o SubSeq(poiRequests, i + 1, Len(poiRequests))
               /\ UNCHANGED routePending
       /\ (lastEvent'.op = "routeResolved")
            => /\ \E i \in 1 .. Len(routePending) :
                    routePending' = SubSeq(routePending, 1, i - 1)
                                      \o SubSeq(routePending, i + 1, Len(routePending))
               /\ UNCHANGED poiRequests]_vars

\* A routing request has failed after the places query before it had
\* succeeded, and nothing is outstanding.
C25_Witness ==
    /\ mounted
    /\ lastEvent.op = "routeResolved"
    /\ ~lastEvent.ok
    /\ places # <<>>
    /\ poiRequests = <<>>
    /\ routePending = <<>>


\* C26: while a route is guided, the step that processes a position update
\* of the current watch (the callback and the effects of the render it
\* causes) ends with the map centred on the new position at a zoom of at
\* least 15, whether or not places are listed.
C26_AutoFollow ==
    [][(/\ DeliveredPosition
        /\ mounted
        /\ Len(routeSteps) > 0
        /\ mapRef # None
        /\ watchIdRef = Some(Head(geoQueue).watch))
         => /\ mapRef' # None
            /\ mapRef'[1].center = <<2 * Head(geoQueue).pos[1].lat,
                                     2 * Head(geoQueue).pos[1].lon>>
            /\ mapRef'[1].zoom >= 15]_vars

\* C27: whenever the next-turn text is non-null, it is the instruction text
\* of a maneuver-bearing step of the step list that is active now.  Stated
\* for the step the claim singles out: right after a routing response has
\* put a new, non-empty step list in place, the next-turn text, if any, is
\* the text of a maneuver-bearing step of the new list.
C27_GuidanceTextOfActiveRoute ==
    [][(mounted /\ lastEvent'.op = "routeResolved" /\ lastEvent'.ok
          /\ Len(routeSteps') > 0 /\ nextTurnText' # None)
         => \E i \in ManeuverBearing(routeSteps') :
                nextTurnText' = Some(NextTurnTextOf(routeSteps'[i]))]_vars

\* C28: a next-turn marker is on the map only if the next-turn text is
\* non-null, and then it is at the maneuver of the selected step.  (The
\* marker is held in a single ref, so there is never more than one.)
\* Stated for the step that writes both: after a position update of the
\* current watch, computed from the active step list, has been processed.
C28_MarkerMatchesGuidance ==
    [][(/\ DeliveredPosition
        /\ mounted
        /\ watchIdRef = Some(Head(geoQueue).watch)
        /\ Head(geoQueue).steps = routeSteps
        /\ nextTurnMarkerRef' # None)
         => /\ nextTurnText' # None
            /\ \E i \in ManeuverBearing(routeSteps') :
                 /\ nextTurnText' = Some(NextTurnTextOf(routeSteps'[i]))
                 /\ nextTurnMarkerRef'
                      = Some(<<routeSteps'[i].maneuver[1].location[2],
                               routeSteps'[i].maneuver[1].location[1]>>)]_vars


\* C29: after clearRoute the step list stays empty, with no watch and no
\* polyline, until a new routing request is issued: the answer to a routing
\* request that was outstanding when the route was cleared re-establishes
\* nothing.
C29_ClearedRouteStaysCleared ==
    [][(mounted /\ lastEvent'.op = "routeResolved" /\ lastEvent'.req.cleared
          /\ Len(routeSteps) = 0)
         => /\ Len(routeSteps') = 0
            /\ watches' = {}
            /\ routePolylineRef' = None]_vars


\* C30: loadingPOI is true exactly while at least one request made by
\* loadPOIs is outstanding; with two overlapping requests it stays true
\* until both have settled.
C30_LoadingWhileOutstanding ==
    mounted => (loadingPOI <=> \E i \in 1 .. Len(poiRequests) :
                                   poiRequests[i].via = "nearby")

=============================================================================
